---- MODULE Spec2Model ----
(***************************************************************************)
(* Model of make_comparison_matrices.py: the annotation parser, the        *)
(* presence table, the pairwise co-presence matrix, the tree-order         *)
(* reconciler and the orchestrator that runs them over two gene panels.    *)
(*                                                                         *)
(* Text is modelled as a sequence of tokens.  A token is a piece of text   *)
(* that no operation of the program splits: "\t", " ", ";", "#", "'",      *)
(* "Name=", ".gff", and plain words such as "mecA" or "x".  A gene name, a *)
(* file name, a GenomeID and a tree leaf name are token sequences too.     *)
(***************************************************************************)
EXTENDS Integers, Sequences, FiniteSets, TLC

VARIABLES input, flat, tree_file, clock, pc, df, gene_df, out, pg, rt

vars == <<input, flat, tree_file, clock, pc, df, gene_df, out, pg, rt>>

(***************************************************************************)
(* Bounds of the model.                                                    *)
(***************************************************************************)
MaxFiles == 2
MaxLeaves == 2
MaxLines == 2
MaxAttr == 3
MaxN == 3
MaxTips == 3

(***************************************************************************)
(* Generic helpers on sequences.                                           *)
(***************************************************************************)
SeqsUpTo(S, n) == UNION {[1..k -> S] : k \in 0..n}

Range(s) == {s[i] : i \in 1..Len(s)}

NoDup(s) == \A i, j \in 1..Len(s) : s[i] = s[j] => i = j

RECURSIVE Rep(_, _)
Rep(s, n) == IF n = 0 THEN <<>> ELSE s \o Rep(s, n - 1)

TAB == "\t"
SP == " "
Whitespace == {TAB, SP}

(***************************************************************************)
(* str.startswith, str.strip, str.split("\t") and                          *)
(* re.search(r"Name=([^;]+)", ...) as parse_gff uses them.                 *)
(***************************************************************************)
StartsWith(line, tok) == Len(line) > 0 /\ line[1] = tok

RECURSIVE LStrip(_)
LStrip(s) == IF s # <<>> /\ s[1] \in Whitespace THEN LStrip(Tail(s)) ELSE s

RECURSIVE RStrip(_)
RStrip(s) ==
    IF s # <<>> /\ s[Len(s)] \in Whitespace
    THEN RStrip(SubSeq(s, 1, Len(s) - 1))
    ELSE s

Strip(s) == RStrip(LStrip(s))

\* The fields of s, cut at every tab; "" gives one empty field, as in Python.
RECURSIVE SplitTab(_)
SplitTab(s) ==
    IF \E i \in 1..Len(s) : s[i] = TAB
    THEN LET i == CHOOSE k \in 1..Len(s) :
                      s[k] = TAB /\ \A l \in 1..(k - 1) : s[l] # TAB
         IN  <<SubSeq(s, 1, i - 1)>> \o SplitTab(SubSeq(s, i + 1, Len(s)))
    ELSE <<s>>

\* The longest run of tokens other than ";" that starts at position i.
RECURSIVE RunNoSemi(_, _)
RunNoSemi(s, i) ==
    IF i <= Len(s) /\ s[i] # ";" THEN <<s[i]>> \o RunNoSemi(s, i + 1) ELSE <<>>

\* re.search(r"Name=([^;]+)", attributes): the leftmost "Name=" that is
\* followed by at least one character other than ";".
NameSearch(attributes) ==
    LET hits == {i \in 1..Len(attributes) :
                    /\ attributes[i] = "Name="
                    /\ i < Len(attributes)
                    /\ attributes[i + 1] # ";"}
    IN  IF hits = {}
        THEN [found |-> FALSE, group |-> <<>>]
        ELSE LET i == CHOOSE k \in hits : \A l \in hits : k <= l
             IN  [found |-> TRUE, group |-> RunNoSemi(attributes, i + 1)]

(***************************************************************************)
(* parse_gff: the gene panels, the initial presence dictionary, the body   *)
(* of the loop over the lines of the file, and the whole scan.             *)
(***************************************************************************)
hgt_genes == << <<"mecA">>, <<"cmlA">>, <<"tetA">>, <<"tetM">>, <<"vanA">> >>
vgt_genes == << <<"gapA">>, <<"gyrA">>, <<"gyrB">>, <<"recA">>, <<"rpoB">> >>

InitPresence(target_genes) == [g \in Range(target_genes) |-> 0]

ScanLine(gene_presence, line, target_genes) ==
    IF StartsWith(line, "#")
    THEN gene_presence
    ELSE LET columns == SplitTab(Strip(line))
         IN  IF Len(columns) > 8
             THEN LET match == NameSearch(columns[9])
                  IN  IF match.found /\ match.group \in Range(target_genes)
                      THEN [gene_presence EXCEPT ![match.group] = 1]
                      ELSE gene_presence
             ELSE gene_presence

RECURSIVE ScanLines(_, _, _)
ScanLines(gene_presence, lines, target_genes) ==
    IF lines = <<>>
    THEN gene_presence
    ELSE ScanLines(ScanLine(gene_presence, Head(lines), target_genes),
                   Tail(lines), target_genes)

\* os.path.basename(file_path).replace(".gff", "")
GenomeName(filename) == SelectSeq(filename, LAMBDA t : t # ".gff")

parse_gff(filename, lines, target_genes) ==
    [genome_name |-> GenomeName(filename),
     gene_presence |-> ScanLines(InitPresence(target_genes), lines, target_genes)]


(***************************************************************************)
(* Tables.  A presence table is [index, genes, data]: the row labels, the  *)
(* gene columns and, per gene, the column of bits.  A square matrix is     *)
(* [index, columns, values] with values a sequence of rows.  Labels are    *)
(* kept by position, since pandas allows a label to repeat.                *)
(***************************************************************************)
EmptyTable == [index |-> <<>>, genes |-> <<>>, data |-> <<>>]
EmptyFrame == [index |-> <<>>, columns |-> <<>>, values |-> <<>>]

\* pd.DataFrame(results) followed by set_index("Genome").
DataFrame(results, target_genes) ==
    [index |-> [i \in 1..Len(results) |-> results[i].genome_name],
     genes |-> target_genes,
     data  |-> [g \in Range(target_genes) |->
                   [i \in 1..Len(results) |-> results[i].gene_presence[g]]]]

\* The & of two integers, bit by bit.
RECURSIVE BitAnd(_, _)
BitAnd(a, b) ==
    IF a = 0 \/ b = 0
    THEN 0
    ELSE (a % 2) * (b % 2) + 2 * BitAnd(a \div 2, b \div 2)

\* CoPresence with | in place of &: 1 when either genome carries the gene.
CoPresenceEither(table, gene) ==
    LET col == table.data[gene]
        n   == Len(col)
    IN  [index   |-> table.index,
         columns |-> table.index,
         values  |-> [i \in 1..n |->
                         [j \in 1..n |-> IF col[i] + col[j] > 0 THEN 1 ELSE 0]]]

\* CoPresence over the genomes that carry the gene only.
CoPresencePresentOnly(table, gene) ==
    LET col  == table.data[gene]
        keep == SelectSeq([i \in 1..Len(col) |-> i], LAMBDA i : col[i] = 1)
        idx  == [k \in 1..Len(keep) |-> table.index[keep[k]]]
    IN  [index   |-> idx,
         columns |-> idx,
         values  |-> [k \in 1..Len(keep) |-> [l \in 1..Len(keep) |-> 1]]]

\* df[gene].values[:, None] & df[gene].values[None, :], labelled by df.index.
CoPresence(table, gene) ==
    LET col == table.data[gene]
        n   == Len(col)
    IN  [index   |-> table.index,
         columns |-> table.index,
         values  |-> [i \in 1..n |-> [j \in 1..n |-> BitAnd(col[i], col[j])]]]

(***************************************************************************)
(* reorder_matrix_by_tree.  The tree file is [parses, terminals]: whether  *)
(* Phylo.read accepts the text and, if so, the names (leaf.name) of its    *)
(* terminal nodes from left to right.                                      *)
(***************************************************************************)
RECURSIVE LStripQuote(_)
LStripQuote(s) == IF s # <<>> /\ s[1] = "'" THEN LStripQuote(Tail(s)) ELSE s

RECURSIVE RStripQuote(_)
RStripQuote(s) ==
    IF s # <<>> /\ s[Len(s)] = "'"
    THEN RStripQuote(SubSeq(s, 1, Len(s) - 1))
    ELSE s

\* leaf.name.strip("'")
StripQuote(name) == RStripQuote(LStripQuote(name))

TipLabelsOrdered(tree) ==
    [i \in 1..Len(tree.terminals) |-> StripQuote(tree.terminals[i])]

\* ValidGenomes with the loop turned around, [g for g in df.index if g in
\* tip_labels_ordered]: the matrix's order instead of the tree's.
ValidGenomesByIndex(tip_labels_ordered, index) ==
    SelectSeq(index, LAMBDA g : g \in Range(tip_labels_ordered))

\* [g for g in tip_labels_ordered if g in df.index]
ValidGenomes(tip_labels_ordered, index) ==
    SelectSeq(tip_labels_ordered, LAMBDA g : g \in Range(index))

\* The positions of label g on an axis, ascending.
Matches(labels, g) ==
    SelectSeq([i \in 1..Len(labels) |-> i], LAMBDA i : labels[i] = g)

\* The positions .loc selects for a list of keys: for each key in turn,
\* every position of the axis that carries it.
RECURSIVE Indexer(_, _)
Indexer(labels, keys) ==
    IF keys = <<>>
    THEN <<>>
    ELSE Matches(labels, Head(keys)) \o Indexer(labels, Tail(keys))

\* Loc that permutes the values and leaves the axis labels in their old
\* order.
LocKeepLabels(frame, rows, cols) ==
    LET ri == Indexer(frame.index, rows)
        ci == Indexer(frame.columns, cols)
        old(labels, k, at) == IF k <= Len(labels) THEN labels[k] ELSE labels[at]
    IN  [index   |-> [k \in 1..Len(ri) |-> old(frame.index, k, ri[k])],
         columns |-> [l \in 1..Len(ci) |-> old(frame.columns, l, ci[l])],
         values  |-> [k \in 1..Len(ri) |->
                         [l \in 1..Len(ci) |-> frame.values[ri[k]][ci[l]]]]]

\* df.loc[rows, cols]
Loc(frame, rows, cols) ==
    LET ri == Indexer(frame.index, rows)
        ci == Indexer(frame.columns, cols)
    IN  [index   |-> [k \in 1..Len(ri) |-> frame.index[ri[k]]],
         columns |-> [l \in 1..Len(ci) |-> frame.columns[ci[l]]],
         values  |-> [k \in 1..Len(ri) |->
                         [l \in 1..Len(ci) |-> frame.values[ri[k]][ci[l]]]]]

\* reorder_matrix_by_tree that raises when no leaf is in the matrix.
reorder_raise_on_empty(frame, tree) ==
    LET valid_genomes == ValidGenomes(TipLabelsOrdered(tree), frame.index)
    IN  IF ~tree.parses \/ valid_genomes = <<>>
        THEN [raised |-> TRUE, valid_genomes |-> <<>>, df_ordered |-> EmptyFrame]
        ELSE [raised        |-> FALSE,
              valid_genomes |-> valid_genomes,
              df_ordered    |-> Loc(frame, valid_genomes, valid_genomes)]

reorder_matrix_by_tree(frame, tree) ==
    IF ~tree.parses
    THEN [raised |-> TRUE, valid_genomes |-> <<>>, df_ordered |-> EmptyFrame]
    ELSE LET valid_genomes ==
                 ValidGenomes(TipLabelsOrdered(tree), frame.index)
         IN  [raised        |-> FALSE,
              valid_genomes |-> valid_genomes,
              df_ordered    |-> Loc(frame, valid_genomes, valid_genomes)]


(***************************************************************************)
(* The file system of a run.                                               *)
(*   input     [exists, files]: the input root and the annotation and      *)
(*             other files in its subdirectories, <<dir, name>> -> lines   *)
(*   flat      the working directory output/gff: name -> [lines, ctime]    *)
(*   tree_file the tree file                                               *)
(*   out       the tables written by this run: path -> [content, mtime]    *)
(*   clock     the file system's time                                      *)
(***************************************************************************)
a_gff     == <<"a", ".gff">>
b_gff     == <<"b", ".gff">>
a_gff_gff == <<"a", ".gff", ".gff">>
a_txt     == <<"a", ".txt">>

\* The places of the input root where a run of the model may hold a file:
\* a.gff in two subdirectories, two names that give one GenomeID, another
\* genome, and a file that is no annotation file.
InputSlots ==
    { <<"d1", a_gff>>, <<"d2", a_gff>>, <<"d1", a_gff_gff>>,
      <<"d1", b_gff>>, <<"d2", a_txt>> }

Cols8 == Rep(<<"x", TAB>>, 8)

\* Annotation files: one with mecA and gapA records, one with a comment, a
\* short record, a record without Name and a tetA record, one that is empty.
FileContents ==
    { << Cols8 \o <<"ID=", "x", ";", "Name=", "mecA">>,
         Cols8 \o <<"Name=", "gapA", ";", "x">> >>,
      << <<"#", "x">>,
         <<"x", TAB, "Name=", "mecA">>,
         Cols8 \o <<"ID=", "x">>,
         Cols8 \o <<"Name=", "tetA">> >>,
      << >> }

EndsWithGff(name) == Len(name) > 0 /\ name[Len(name)] = ".gff"

Perms(S) ==
    {s \in [1..Cardinality(S) -> S] : \A i, j \in 1..Cardinality(S) :
                                          s[i] = s[j] => i = j}

\* The orders in which os.walk can visit the files: directory by directory,
\* the directories and the files of a directory in any order.
WalkOrders(files) ==
    {s \in Perms(DOMAIN files) :
        \A i, j, k \in 1..Len(s) :
            (i < j /\ j < k /\ s[i][1] = s[k][1]) => s[j][1] = s[i][1]}

\* shutil.copy2(src, dst) for every .gff file, in walk order.
RECURSIVE CopyAll(_, _, _, _)
CopyAll(order, files, dstdir, now) ==
    IF order = <<>>
    THEN [dir |-> dstdir, clock |-> now]
    ELSE LET src  == Head(order)
             file == src[2]
         IN  IF EndsWithGff(file)
             THEN CopyAll(Tail(order), files,
                          [n \in DOMAIN dstdir \cup {file} |->
                              IF n = file
                              THEN [lines |-> files[src], ctime |-> now]
                              ELSE dstdir[n]],
                          now + 1)
             ELSE CopyAll(Tail(order), files, dstdir, now)

\* sorted([f for f in os.listdir(folder) if f.endswith(".gff")], key=getctime)
RECURSIVE SortByCtime(_, _)
SortByCtime(names, dir) ==
    IF names = {}
    THEN <<>>
    ELSE LET f == CHOOSE n \in names :
                      \A m \in names : dir[n].ctime <= dir[m].ctime
         IN  <<f>> \o SortByCtime(names \ {f}, dir)

FileList(dir) == SortByCtime({n \in DOMAIN dir : EndsWithGff(n)}, dir)

\* The two calls of process_gff_folder in main.
Category(c) ==
    IF c = 1
    THEN [label |-> "HGT", folder |-> "hgt", genes |-> hgt_genes]
    ELSE [label |-> "VGT", folder |-> "vgt", genes |-> vgt_genes]

MatrixPath(c) ==
    <<Category(c).folder, <<Category(c).label, "_gene_presence_matrix.csv">>>>

\* OutputPath without the gene in the file name.
OutputPathFixed(c, gene) ==
    <<Category(c).folder, <<"comparison_matrix_ordered_by_tree.csv">>>>

OutputPath(c, gene) ==
    <<Category(c).folder, gene \o <<"_comparison_matrix_ordered_by_tree.csv">>>>

\* DataFrame.to_csv(path): the file holds the table's labels and values.
ToCsv(files, path, content, now) ==
    [p \in DOMAIN files \cup {path} |->
        IF p = path THEN [content |-> content, mtime |-> now] ELSE files[p]]

At(where, c, g, exc) == [at |-> where, cat |-> c, gene |-> g, exc |-> exc]

IdlePg == [n |-> 0, line |-> <<>>, gene_presence |-> <<>>]
IdleRt == [step |-> 0, frame |-> EmptyFrame,
           tree |-> [parses |-> FALSE, terminals |-> <<>>],
           valid_genomes |-> <<>>, r1 |-> EmptyFrame, r2 |-> EmptyFrame]

LeafNames == { <<"a">>, <<"'", "b", "'">>, <<"d">> }

TreeFiles(n) ==
    {[parses |-> FALSE, terminals |-> <<>>]}
        \cup {[parses |-> TRUE, terminals |-> t] : t \in SeqsUpTo(LeafNames, n)}

InputTrees ==
    {[exists |-> FALSE, files |-> <<>>]}
        \cup {[exists |-> TRUE, files |-> f] :
                 f \in UNION {[S -> FileContents] :
                                 S \in {T \in SUBSET InputSlots :
                                           Cardinality(T) <= MaxFiles}}}

\* The working directory before the run: empty, or still holding a file of
\* an earlier run (os.makedirs(..., exist_ok=True) accepts both).
FlatBefore ==
    { <<>>,
      [n \in {b_gff} |->
          [lines |-> << Cols8 \o <<"Name=", "recA">> >>, ctime |-> 0]] }

Init ==
    /\ input \in InputTrees
    /\ flat \in FlatBefore
    /\ tree_file \in TreeFiles(MaxLeaves)
    /\ clock = 1
    /\ pc = At("copy", 1, 1, "")
    /\ df = EmptyTable
    /\ gene_df = EmptyFrame
    /\ out = <<>>
    /\ pg = IdlePg
    /\ rt = IdleRt

\* main, line 128: copy_gff_files(input_folder, gff_flat_folder).
CopyGffFiles ==
    /\ pc.at = "copy"
    /\ \E order \in WalkOrders(input.files) :
           LET r == CopyAll(order, input.files, flat, clock)
           IN  /\ flat' = r.dir
               /\ clock' = r.clock
    /\ pc' = At("table", 1, 1, "")
    /\ UNCHANGED <<input, tree_file, df, gene_df, out, pg, rt>>

\* process_gff_folder, lines 86-106: parse every file, build and save the
\* presence table.  set_index raises KeyError on a table without rows.
BuildTable ==
    /\ pc.at = "table"
    /\ LET c == pc.cat
           file_list == FileList(flat)
           results == [i \in 1..Len(file_list) |->
                          parse_gff(file_list[i], flat[file_list[i]].lines,
                                    Category(c).genes)]
       IN  IF results = <<>>
           THEN /\ pc' = At("raised", c, 1, "KeyError")
                /\ UNCHANGED <<df, out, clock>>
           ELSE /\ df' = DataFrame(results, Category(c).genes)
                /\ out' = ToCsv(out, MatrixPath(c), df', clock)
                /\ clock' = clock + 1
                /\ pc' = At("gene", c, 1, "")
    /\ UNCHANGED <<input, flat, tree_file, gene_df, pg, rt>>

\* process_gff_folder, lines 109-121: one pass of the loop over the genes.
\* An exception of reorder_matrix_by_tree is caught nowhere and ends the run.
GeneStep ==
    /\ pc.at = "gene"
    /\ LET c == pc.cat
           genes == Category(c).genes
           gene == genes[pc.gene]
           r == reorder_matrix_by_tree(gene_df', tree_file)
       IN  /\ gene_df' = CoPresence(df, gene)
           /\ IF r.raised
              THEN /\ pc' = At("raised", c, pc.gene, "NewickError")
                   /\ UNCHANGED <<out, clock>>
              ELSE /\ out' = ToCsv(out, OutputPath(c, gene), r.df_ordered, clock)
                   /\ clock' = clock + 1
                   /\ pc' = IF pc.gene < Len(genes)
                            THEN At("gene", c, pc.gene + 1, "")
                            ELSE IF c = 1
                                 THEN At("table", 2, 1, "")
                                 ELSE At("done", 2, pc.gene, "")
    /\ UNCHANGED <<input, flat, tree_file, df, pg, rt>>

Next == CopyGffFiles \/ BuildTable \/ GeneStep

Spec == Init /\ [][Next]_vars


(***************************************************************************)
(* parse_gff on its own: the loop over the lines of one file, panel        *)
(* hgt_genes, reading up to MaxLines lines drawn from Lines.               *)
(***************************************************************************)
Leads == { <<>>, <<"#">>, <<TAB>> }
Trails == { <<>>, <<SP>> }
AttrTokens == {"Name=", ";", "mecA", "x"}

Lines ==
    {lead \o Rep(<<"x", TAB>>, k) \o attr \o trail :
        lead \in Leads, k \in {7, 8},
        attr \in SeqsUpTo(AttrTokens, MaxAttr), trail \in Trails}

NoInput == [exists |-> FALSE, files |-> <<>>]

InitParse ==
    /\ pg = [n |-> 0, line |-> <<>>, gene_presence |-> InitPresence(hgt_genes)]
    /\ input = NoInput
    /\ flat = <<>>
    /\ tree_file = IdleRt.tree
    /\ clock = 1
    /\ pc = At("idle", 1, 1, "")
    /\ df = EmptyTable
    /\ gene_df = EmptyFrame
    /\ out = <<>>
    /\ rt = IdleRt

\* parse_gff, lines 41-50: the next line of the file is read and scanned.
ReadLine ==
    /\ pg.n < MaxLines
    /\ \E line \in Lines :
           pg' = [n |-> pg.n + 1,
                  line |-> line,
                  gene_presence |-> ScanLine(pg.gene_presence, line, hgt_genes)]
    /\ UNCHANGED <<input, flat, tree_file, clock, pc, df, gene_df, out, rt>>

NextParse == ReadLine

SpecParse == InitParse /\ [][NextParse]_vars

(***************************************************************************)
(* reorder_matrix_by_tree on its own: a co-presence matrix over up to MaxN *)
(* genomes, in any row order, and a tree of up to MaxTips leaves; the      *)
(* matrix is reordered, and the result reordered again by the same tree.   *)
(***************************************************************************)
Labels == { <<"a">>, <<"b">>, <<"c">> }

Frames ==
    {CoPresence([index |-> idx, genes |-> << <<"g">> >>,
                 data |-> [g \in {<<"g">>} |-> bits]], <<"g">>) :
        idx \in SeqsUpTo(Labels, MaxN), bits \in SeqsUpTo({0, 1}, MaxN)}

InitReorder ==
    /\ \E frame \in {f \in Frames : Len(f.index) = Len(f.values)},
          tree \in TreeFiles(MaxTips) :
           rt = [IdleRt EXCEPT !.step = 0, !.frame = frame, !.tree = tree]
    /\ input = NoInput
    /\ flat = <<>>
    /\ tree_file = IdleRt.tree
    /\ clock = 1
    /\ pc = At("idle", 1, 1, "")
    /\ df = EmptyTable
    /\ gene_df = EmptyFrame
    /\ out = <<>>
    /\ pg = IdlePg

\* reorder_matrix_by_tree(df, tree_file)
Reorder ==
    /\ rt.step = 0
    /\ LET r == reorder_matrix_by_tree(rt.frame, rt.tree)
       IN  rt' = IF r.raised
                 THEN [rt EXCEPT !.step = 3]
                 ELSE [rt EXCEPT !.step = 1,
                                 !.valid_genomes = r.valid_genomes,
                                 !.r1 = r.df_ordered]
    /\ UNCHANGED <<input, flat, tree_file, clock, pc, df, gene_df, out, pg>>

\* reorder_matrix_by_tree(df_ordered, tree_file)
ReorderAgain ==
    /\ rt.step = 1
    /\ rt' = [rt EXCEPT !.step = 2,
                        !.r2 = reorder_matrix_by_tree(rt.r1, rt.tree).df_ordered]
    /\ UNCHANGED <<input, flat, tree_file, clock, pc, df, gene_df, out, pg>>

NextReorder == Reorder \/ ReorderAgain

SpecReorder == InitReorder /\ [][NextReorder]_vars


(***************************************************************************)
(* Properties.                                                             *)
(***************************************************************************)
AllCats == {1, 2}

\* The category and the gene of the last pass of the gene loop, when df is
\* still the table that pass used; gene <<>> when there is none.
LastPass ==
    IF pc.at = "gene" /\ pc.gene > 1
    THEN [cat |-> pc.cat, gene |-> Category(pc.cat).genes[pc.gene - 1]]
    ELSE IF pc.at = "table" /\ pc.cat = 2
    THEN [cat |-> 1, gene |-> hgt_genes[Len(hgt_genes)]]
    ELSE IF pc.at = "done"
    THEN [cat |-> 2, gene |-> vgt_genes[Len(vgt_genes)]]
    ELSE IF pc.at = "raised" /\ pc.exc = "NewickError"
    THEN [cat |-> pc.cat, gene |-> Category(pc.cat).genes[pc.gene]]
    ELSE [cat |-> 0, gene |-> <<>>]

Bit(table, gene, i) == table.data[gene][i]

\* C1: the co-presence matrix built for a gene carries the presence table's
\* GenomeIDs, in the table's row order, on both axes; cell (i,j) is 1 exactly
\* when the gene's bit is 1 for both i and j, and 0 otherwise; so the matrix
\* is symmetric and its diagonal is the presence column.
C1_CoPresence ==
    LastPass.gene # <<>> =>
        LET g == LastPass.gene
            n == Len(df.index)
        IN  /\ gene_df.index = df.index
            /\ gene_df.columns = df.index
            /\ Len(gene_df.values) = n
            /\ \A i \in 1..n :
                   /\ Len(gene_df.values[i]) = n
                   /\ gene_df.values[i][i] = Bit(df, g, i)
                   /\ \A j \in 1..n :
                          /\ gene_df.values[i][j] \in {0, 1}
                          /\ gene_df.values[i][j] = 1
                                 <=> (Bit(df, g, i) = 1 /\ Bit(df, g, j) = 1)
                          /\ gene_df.values[i][j] = gene_df.values[j][i]

\* A matrix of two or more genomes has been built for mecA, with a 1 and a 0.
C1_Witness ==
    /\ LastPass.gene = <<"mecA">>
    /\ Len(gene_df.index) >= 2
    /\ \E i, j \in 1..Len(gene_df.index) :
           gene_df.values[i][i] = 1 /\ gene_df.values[i][j] = 0


\* The positions of the tree's leaves whose name is in the matrix's index.
KeptTips == {i \in 1..Len(rt.tree.terminals) :
                TipLabelsOrdered(rt.tree)[i] \in Range(rt.frame.index)}

\* The k-th smallest member of a set of numbers.
Kth(S, k) == CHOOSE i \in S : Cardinality({j \in S : j < i}) = k - 1

\* C2: validGenomes is exactly the tree's leaf names (quotes stripped) that
\* are in the matrix's index, in tree leaf order: its k-th entry is the k-th
\* leaf that is in the index.  So it is a subsequence of TreeOrder whatever
\* the matrix's row order, and no genome that is not a leaf is in it.
C2_ValidGenomes ==
    rt.step \in {1, 2} =>
        /\ Len(rt.valid_genomes) = Cardinality(KeptTips)
        /\ \A k \in 1..Len(rt.valid_genomes) :
               /\ rt.valid_genomes[k] = TipLabelsOrdered(rt.tree)[Kth(KeptTips, k)]
               /\ rt.valid_genomes[k] \in Range(rt.frame.index)
               /\ rt.valid_genomes[k] \in Range(TipLabelsOrdered(rt.tree))
               /\ "'" \notin Range(rt.valid_genomes[k])

\* The matrix is indexed [a, b, c], the tree's leaves are 'b' then a:
\* validGenomes is [b, a], and c is dropped.
C2_Witness ==
    /\ rt.step = 1
    /\ rt.frame.index = << <<"a">>, <<"b">>, <<"c">> >>
    /\ rt.tree.terminals = << <<"'", "b", "'">>, <<"a">> >>
    /\ rt.valid_genomes = << <<"b">>, <<"a">> >>

\* C3 as claimed: the reordered matrix written for a gene has validGenomes
\* as its row labels and as its column labels, and its cell (a,b) is the
\* co-presence matrix's cell (a,b) for all a, b of validGenomes.
C3_AsClaimed ==
    (LastPass.gene # <<>> /\ pc.at # "raised") =>
        LET m == out[OutputPath(LastPass.cat, LastPass.gene)].content
            v == ValidGenomes(TipLabelsOrdered(tree_file), gene_df.index)
        IN  /\ m.index = v
            /\ m.columns = v
            /\ Len(m.values) = Len(v)
            /\ \A k, l \in 1..Len(v) :
                   \A i, j \in 1..Len(gene_df.index) :
                       (gene_df.index[i] = v[k] /\ gene_df.columns[j] = v[l])
                           => m.values[k][l] = gene_df.values[i][j]

\* C4 as claimed: reordering the reordered matrix by the same tree gives the
\* same matrix again, for every matrix and every tree.
C4_AsClaimed == rt.step = 2 => rt.r2 = rt.r1

\* C4, amended: reordering is idempotent whenever no leaf name of
\* validGenomes is named twice by the tree, also when the matrix's index
\* holds a GenomeID twice.
C4_Idempotent == (rt.step = 2 /\ NoDup(rt.valid_genomes)) => rt.r2 = rt.r1

\* A matrix whose index holds a GenomeID twice was reordered twice by a tree
\* that names each leaf once; both results hold the doubled rows.
C4_Witness ==
    /\ rt.step = 2
    /\ NoDup(rt.valid_genomes)
    /\ ~NoDup(rt.frame.index)
    /\ Len(rt.valid_genomes) >= 2
    /\ Len(rt.r1.index) > Len(rt.valid_genomes)
    /\ rt.r1.index # rt.frame.index
    /\ \E i, j \in 1..Len(rt.r1.index) : rt.r1.values[i][i] # rt.r1.values[j][j]
    /\ rt.r2 = rt.r1


\* The reading of the claim C5: the record's fields are the line cut at every
\* tab, the Name value is the text between the first Name= of the 9th field
\* and the next ";" or the end of the field.
ClaimedNameIs(field, g) ==
    /\ \E i \in 1..Len(field) : field[i] = "Name="
    /\ LET i == CHOOSE k \in 1..Len(field) :
                    field[k] = "Name=" /\ \A l \in 1..(k - 1) : field[l] # "Name="
       IN  RunNoSemi(field, i + 1) = g

ClaimedMatch(line, g) ==
    /\ ~StartsWith(line, "#")
    /\ Len(SplitTab(line)) >= 9
    /\ ClaimedNameIs(SplitTab(line)[9], g)

\* C5 as claimed: the bit of gene g is 1 after a line has been read exactly
\* when it was 1 before or the line is a record (no comment, 9 or more
\* tab-separated fields) whose Name value is string-equal to g; so short
\* records and records without Name change nothing and do not stop the scan,
\* a second match leaves the bit at 1, and a partial match sets nothing.
C5_AsClaimed ==
    [][pg'.n = pg.n + 1 =>
          \A g \in Range(hgt_genes) :
              pg'.gene_presence[g] = 1
                  <=> (pg.gene_presence[g] = 1 \/ ClaimedMatch(pg'.line, g))]_vars

GffInputs == {f \in DOMAIN input.files : EndsWithGff(f[2])}

\* The working directory holds only files copied by this run.
FreshFlat == \A n \in DOMAIN flat : flat[n].ctime > 0

\* C6 as claimed: a presence table that has been written holds every
\* GenomeID in one row only and one row per annotation file of the input (a
\* run with two files of one GenomeID raises instead of writing a table).
\* Stated for runs that start with an empty working directory.
C6_AsClaimed ==
    \A c \in AllCats :
        (FreshFlat /\ MatrixPath(c) \in DOMAIN out) =>
            LET table == out[MatrixPath(c)].content
            IN  /\ NoDup(table.index)
                /\ Len(table.index) = Cardinality(GffInputs)

AllOutputs ==
    {MatrixPath(c) : c \in AllCats}
        \cup {OutputPath(1, hgt_genes[i]) : i \in 1..Len(hgt_genes)}
        \cup {OutputPath(2, vgt_genes[i]) : i \in 1..Len(vgt_genes)}

\* C7 as claimed: a tree that cannot be parsed fails the ordering step of a
\* gene only; when the run has ended, every gene of both categories has been
\* attempted, so the presence table of the remaining category was written.
\* Stated for runs that start with an empty working directory.
C7_AsClaimed ==
    (/\ pc.at \in {"done", "raised"}
     /\ ~tree_file.parses
     /\ df # EmptyTable
     /\ FreshFlat)
        => /\ MatrixPath(2) \in DOMAIN out
           /\ pc.cat = 2
           /\ pc.gene = Len(vgt_genes)

NoOverlap ==
    Range(TipLabelsOrdered(tree_file)) \cap Range(df.index) = {}

GenePaths(c, n) == {OutputPath(c, Category(c).genes[i]) : i \in 1..n}

\* The gene files the run has written when it stands at pc.
WrittenGenePaths ==
    IF pc.at = "gene"
    THEN GenePaths(pc.cat, pc.gene - 1)
             \cup (IF pc.cat = 2 THEN GenePaths(1, Len(hgt_genes)) ELSE {})
    ELSE IF pc.at = "table" /\ pc.cat = 2
    THEN GenePaths(1, Len(hgt_genes))
    ELSE IF pc.at = "done"
    THEN GenePaths(1, Len(hgt_genes)) \cup GenePaths(2, Len(vgt_genes))
    ELSE {}

\* C8: when the tree parses and none of its leaf names is in the matrix's
\* index, the ordering does not fail: the gene's file is written and holds a
\* matrix of no rows and no columns, the loop goes on to the next gene and
\* the run ends with the files of all genes written; when a leaf name is in
\* the index, the matrix written has rows, so the two cannot be confused.
C8_EmptyIntersection ==
    (tree_file.parses /\ df # EmptyTable) =>
        /\ pc.at # "raised"
        /\ WrittenGenePaths \subseteq DOMAIN out
        /\ \A p \in WrittenGenePaths :
               /\ NoOverlap =>
                      /\ out[p].content.index = <<>>
                      /\ out[p].content.columns = <<>>
                      /\ out[p].content.values = <<>>
               /\ ~NoOverlap =>
                      /\ Len(out[p].content.index) >= 1
                      /\ Len(out[p].content.columns) >= 1

\* A run over two genomes and a tree of two other leaves has ended, with all
\* ten gene files written, each of them an empty matrix.
C8_Witness ==
    /\ pc.at = "done"
    /\ tree_file.parses
    /\ Len(tree_file.terminals) >= 2
    /\ Len(df.index) >= 2
    /\ NoOverlap
    /\ \A p \in GenePaths(1, Len(hgt_genes)) \cup GenePaths(2, Len(vgt_genes)) :
           p \in DOMAIN out /\ out[p].content = EmptyFrame

\* C9 as claimed: a run whose input root is missing, or holds no annotation
\* file, does not end successfully and writes no presence table and no
\* comparison matrix.
C9_AsClaimed ==
    (~input.exists \/ GffInputs = {}) => (pc.at # "done" /\ DOMAIN out = {})

\* C10: a file the run has written (a presence table or a gene's matrix) is
\* neither removed nor written again by a later step of the run: it is still
\* there after every step, with the same content and the same write time.
C10_NoRewrite ==
    [][\A p \in DOMAIN out : p \in DOMAIN out' /\ out'[p] = out[p]]_vars

\* A run has ended with both presence tables and all ten gene matrices
\* written, the twelve files written at twelve different times.
C10_Witness ==
    /\ pc.at = "done"
    /\ DOMAIN out = AllOutputs
    /\ Cardinality({out[p].mtime : p \in DOMAIN out}) = Cardinality(AllOutputs)
    /\ Len(df.index) >= 2

\* The base name of a file with its extension, the last dot-part, removed
\* (os.path.splitext): the reading of "extension stripped" in C11.
ExtensionStripped(filename) == SubSeq(filename, 1, Len(filename) - 1)

\* C11 as claimed: the GenomeID of every row of the presence table is the
\* base name of the row's annotation file with its extension stripped and
\* nothing else changed, so the files of the working directory, whose names
\* differ, give rows of different GenomeIDs.
C11_AsClaimed ==
    df # EmptyTable =>
        LET file_list == FileList(flat)
        IN  /\ Len(df.index) = Len(file_list)
            /\ \A i \in 1..Len(file_list) :
                   df.index[i] = ExtensionStripped(file_list[i])
            /\ NoDup(df.index)

(***************************************************************************)
(* The viewer, DotmapViewer.plot_selected: every selected matrix file is   *)
(* read back with pd.read_csv(path, index_col=0), and the axis labels of   *)
(* the plot are those of the first file read.                              *)
(***************************************************************************)
\* read_csv renames a column label that repeats: a, a.1, a.2, ...
MangleDupeCols(labels) ==
    [l \in 1..Len(labels) |->
        LET before == Cardinality({k \in 1..(l - 1) : labels[k] = labels[l]})
        IN  IF before = 0
            THEN labels[l]
            ELSE labels[l] \o <<".", ToString(before)>>]

\* pd.read_csv(path, index_col=0) of a file written by to_csv.
ReadCsv(content) ==
    [index   |-> content.index,
     columns |-> MangleDupeCols(content.columns),
     values  |-> content.values]

\* x_labels, y_labels as plot_selected takes them from the file at path.
AxisLabels(path) ==
    LET frame == ReadCsv(out[path].content)
    IN  [x_labels |-> frame.columns, y_labels |-> frame.index]

AllGenePaths == GenePaths(1, Len(hgt_genes)) \cup GenePaths(2, Len(vgt_genes))

\* C12: when a run has completed, the ordered comparison matrices of all
\* genes of both categories are written and carry the same sequence of row
\* labels and the same sequence of column labels; so the axis labels the
\* viewer takes from the first selected file are those of every other file.
C12_SameAxes ==
    pc.at = "done" =>
        /\ AllGenePaths \subseteq DOMAIN out
        /\ \A p, q \in AllGenePaths :
               /\ out[p].content.index = out[q].content.index
               /\ out[p].content.columns = out[q].content.columns
               /\ AxisLabels(p) = AxisLabels(q)

\* A run has completed over two genomes that are both leaves of the tree;
\* the matrices of mecA and of cmlA hold different values, and the files of
\* mecA and of gapA give the viewer the same axis labels.
C12_Witness ==
    /\ pc.at = "done"
    /\ Len(out[OutputPath(1, <<"mecA">>)].content.index) >= 2
    /\ NoDup(out[OutputPath(1, <<"mecA">>)].content.index)
    /\ out[OutputPath(1, <<"mecA">>)].content.values
           # out[OutputPath(1, <<"cmlA">>)].content.values
    /\ AxisLabels(OutputPath(1, <<"mecA">>)) = AxisLabels(OutputPath(2, <<"gapA">>))

====
